---- MODULE Spec2Model ----
(***************************************************************************)
(* A model of the directory-tree checker of 2DT/checkerDT.c.               *)
(*                                                                         *)
(* The state is the heap of Node objects, the three fields of the DT that  *)
(* owns them (bIsInitialized, oNRoot, ulCount), and the outcome of the     *)
(* last call of one of the checker's two entry points.  The checker's      *)
(* functions are operators that return what the C functions produce: the   *)
(* returned boolean, the lines written to stderr, the value left in        *)
(* *pNodeCount, and the nodes visited.                                     *)
(*                                                                         *)
(* The Path and Node modules and the DT that builds the tree are not part  *)
(* of 2DT/checkerDT.c; they are modelled from their documented contracts.  *)
(***************************************************************************)
EXTENDS Integers, Sequences, FiniteSets, TLC

VARIABLES
    heap,            \* the Node objects: heap[n] = [path, parent, children]
    bIsInitialized,  \* the DT's own flag
    oNRoot,          \* the DT's own root reference (NULL = 0)
    ulCount,         \* the DT's own tally of nodes
    faulted,         \* a field of a node was overwritten behind the DT's back
    call             \* the last call of the checker and its outcome

vars == <<heap, bIsInitialized, oNRoot, ulCount, faulted, call>>

(***************************************************************************)
(* Bounds of the model.                                                    *)
(***************************************************************************)
MaxNodes == 3
MaxDepth == 3

(***************************************************************************)
(* Values.                                                                 *)
(***************************************************************************)
NULL == 0
\* A NULL Path_T.  Every Path object has at least one component.
NULLPATH == << >>
\* '/' as strchr looks for it
Slash == 47
\* the names "a" and "b", as byte strings
Names == { <<97>>, <<98>> }
\* a single component that holds a slash: the name "a/b"
SlashName == <<97, Slash, 98>>

RECURSIVE PathsOfDepth(_)
PathsOfDepth(d) ==
    IF d = 0 THEN { << >> }
    ELSE { Append(p, c) : p \in PathsOfDepth(d - 1), c \in Names }

\* the Path values a node may carry, NULL and the malformed root name included
PathValues ==
    UNION { PathsOfDepth(d) : d \in 1..MaxDepth } \cup { <<SlashName>>, NULLPATH }

\* the values of the size_t argument ulCount
CountValues == 0..(MaxNodes + 2)

(***************************************************************************)
(* Path module (path.h).                                                   *)
(***************************************************************************)
Path_getDepth(p) == Len(p)

Path_getSharedPrefixDepth(p, q) ==
    LET m == IF Len(p) < Len(q) THEN Len(p) ELSE Len(q)
        agree == { k \in 0..m : \A i \in 1..k : p[i] = q[i] }
    IN  CHOOSE k \in agree : \A j \in agree : j <= k

\* the components joined by '/'
RECURSIVE Path_getPathname(_)
Path_getPathname(p) ==
    IF Len(p) = 1 THEN p[1]
    ELSE Path_getPathname(SubSeq(p, 1, Len(p) - 1)) \o <<Slash>> \o p[Len(p)]

\* byte-wise three-way comparison of two names
RECURSIVE CompareBytes(_, _)
CompareBytes(s, t) ==
    IF s = << >> THEN (IF t = << >> THEN 0 ELSE -1)
    ELSE IF t = << >> THEN 1
    ELSE IF Head(s) < Head(t) THEN -1
    ELSE IF Head(s) > Head(t) THEN 1
    ELSE CompareBytes(Tail(s), Tail(t))

\* component-by-component three-way comparison, the shorter path first
RECURSIVE Path_comparePath(_, _)
Path_comparePath(p, q) ==
    IF p = << >> THEN (IF q = << >> THEN 0 ELSE -1)
    ELSE IF q = << >> THEN 1
    ELSE LET c == CompareBytes(Head(p), Head(q))
         IN  IF c # 0 THEN c ELSE Path_comparePath(Tail(p), Tail(q))

\* strchr(s, '/') # NULL
HasSlash(s) == \E i \in 1..Len(s) : s[i] = Slash

(***************************************************************************)
(* What a Path operation does when handed a NULL Path_T.  The contract of  *)
(* path.h gives no meaning to it: a build with assertions aborts, one      *)
(* without dereferences NULL; either way the call never returns ("CRASH"). *)
(* Path_comparePath alone may instead be written to order NULL before      *)
(* every path.  A call of the checker runs against one of the two.         *)
(***************************************************************************)
Libs == { "strict", "nullcmp" }

Crash == "CRASH"

(***************************************************************************)
(* Node module (nodeDT.h).                                                 *)
(***************************************************************************)
Node_getPath(h, n) == h[n].path
Node_getParent(h, n) == h[n].parent
Node_getNumChildren(h, n) == Len(h[n].children)
\* Node_getChild(n, i, &result): SUCCESS and the child for an index in range
Node_getChild(h, n, i) == h[n].children[i]

(***************************************************************************)
(* What a function of the checker produces:                                *)
(*   ret    "TRUE" or "FALSE", or "CRASH" when the call never returns;     *)
(*   err    the lines it wrote to stderr, in order;                        *)
(*   cnt    the value it leaves in *pNodeCount;                            *)
(*   seen   the nodes CheckerDT_treeCheck entered, in order;               *)
(*   nullop the Path operation that was handed a NULL Path_T, if one was.  *)
(***************************************************************************)
Result(r, e, c, s, o) == [ret |-> r, err |-> e, cnt |-> c, seen |-> s, nullop |-> o]

Returned(r) == r.ret \in { "TRUE", "FALSE" }

E_NullNode == "A node is a NULL pointer"
E_ParentChildPaths == "P-C nodes don't have P-C paths"
E_RootHasParent == "The root node has a parent"
E_NoParent == "There is a non-root node without a parent"
E_NullPath == "A node has a NULL path"
E_RootSlash == "The root's path contains a backward slash"
E_Order == "Node children are not in lexicographic order"
E_Duplicate == "Node has duplicate children"
E_GetChild == "getNumChildren claims more children than getChild returns"
E_UninitCount == "Not initialized, but count is not 0"
E_UninitRoot == "Not initialized, but root is not NULL"
E_NullRoot == "Tree is initialized, count > 0 but root is NULL"
E_Count == "Node count does not match ulCount"

(***************************************************************************)
(* The guarded comparison both sibling loops make:                         *)
(*   oNChild1 != NULL && oNChild2 != NULL && Path_comparePath(...) <op> 0  *)
(* "skip": a child is NULL, nothing is compared; "crash": Path_comparePath *)
(* was handed a NULL path it has no answer for; "cmp": it answered c.      *)
(***************************************************************************)
CompareChildren(lib, h, c1, c2) ==
    IF c1 = NULL \/ c2 = NULL THEN [kind |-> "skip", c |-> 0]
    ELSE LET p == Node_getPath(h, c1)
             q == Node_getPath(h, c2)
         IN  IF (p = NULLPATH \/ q = NULLPATH) /\ lib # "nullcmp"
             THEN [kind |-> "crash", c |-> 0]
             ELSE [kind |-> "cmp", c |-> Path_comparePath(p, q)]

\* a wrong duplicate test: the sign of the comparison instead of equality
IsDuplicate_wrongSign(c) == c < 0

\* the test of the duplicate loop
IsDuplicate(c) == c = 0

(***************************************************************************)
(* CheckerDT_noDuplicateChildren: every pair ulIndex < i, in loop order.   *)
(* Pairs are numbered so that loop order is numeric order.                 *)
(***************************************************************************)
CheckerDT_noDuplicateChildren(lib, h, n) ==
    LET k == Node_getNumChildren(h, n)
        cmp(u, i) == CompareChildren(lib, h, Node_getChild(h, n, u), Node_getChild(h, n, i))
        stops == { <<u, i>> \in (1..k) \X (1..k) :
                       /\ u < i
                       /\ \/ cmp(u, i).kind = "crash"
                          \/ cmp(u, i).kind = "cmp" /\ IsDuplicate(cmp(u, i).c) }
        before(a, b) == a[1] < b[1] \/ (a[1] = b[1] /\ a[2] <= b[2])
    IN  IF stops = { } THEN Result("TRUE", << >>, 0, << >>, "")
        ELSE LET f == CHOOSE a \in stops : \A b \in stops : before(a, b)
             IN  IF cmp(f[1], f[2]).kind = "crash"
                 THEN Result(Crash, << >>, 0, << >>, "Path_comparePath")
                 ELSE Result("FALSE", <<E_Duplicate>>, 0, << >>, "")

\* an off-by-one in the same test
ParentPathMismatch_offByOne(pn, pp) ==
    Path_getSharedPrefixDepth(pn, pp) # Path_getDepth(pn)

\* the test of line 66-67
ParentPathMismatch(pn, pp) ==
    Path_getSharedPrefixDepth(pn, pp) # Path_getDepth(pn) - 1

(***************************************************************************)
(* CheckerDT_Node_isValid, statement by statement.                         *)
(***************************************************************************)
CheckerDT_Node_isValid(lib, h, n) ==
    IF n = NULL THEN Result("FALSE", <<E_NullNode>>, 0, << >>, "")
    ELSE
    LET oNParent == Node_getParent(h, n)
        oPNPath == Node_getPath(h, n)
        oPPPath == Node_getPath(h, oNParent)
        ulDepth == Path_getDepth(oPNPath)
    IN  \* line 62-72: the parent's path is the longest proper prefix
        IF oNParent # NULL /\ (oPNPath = NULLPATH \/ oPPPath = NULLPATH)
        THEN Result(Crash, << >>, 0, << >>, "Path_getSharedPrefixDepth")
        ELSE IF oNParent # NULL /\ ParentPathMismatch(oPNPath, oPPPath)
        THEN Result("FALSE", <<E_ParentChildPaths>>, 0, << >>, "")
        \* line 76: Path_getDepth(oPNPath), before oPNPath is tested
        ELSE IF oPNPath = NULLPATH
        THEN Result(Crash, << >>, 0, << >>, "Path_getDepth")
        ELSE IF ulDepth = 1 /\ oNParent # NULL
        THEN Result("FALSE", <<E_RootHasParent>>, 0, << >>, "")
        ELSE IF ulDepth > 1 /\ oNParent = NULL
        THEN Result("FALSE", <<E_NoParent>>, 0, << >>, "")
        ELSE IF oPNPath = NULLPATH
        THEN Result("FALSE", <<E_NullPath>>, 0, << >>, "")
        ELSE IF ulDepth = 1 /\ HasSlash(Path_getPathname(oPNPath))
        THEN Result("FALSE", <<E_RootSlash>>, 0, << >>, "")
        ELSE Result("TRUE", << >>, 0, << >>, "")

\* the ordering test with the comparison inverted
IsOutOfOrder_inverted(c) == c < 0

\* the test of the ordering loop, line 139
IsOutOfOrder(c) == c > 0

(***************************************************************************)
(* The ordering loop of CheckerDT_treeCheck, lines 131-144.                *)
(***************************************************************************)
CheckerDT_orderLoop(lib, h, n) ==
    LET k == Node_getNumChildren(h, n)
        cmp(i) == CompareChildren(lib, h, Node_getChild(h, n, i), Node_getChild(h, n, i + 1))
        stops == { i \in 1..(k - 1) :
                       \/ cmp(i).kind = "crash"
                       \/ cmp(i).kind = "cmp" /\ IsOutOfOrder(cmp(i).c) }
    IN  IF stops = { } THEN Result("TRUE", << >>, 0, << >>, "")
        ELSE LET f == CHOOSE a \in stops : \A b \in stops : a <= b
             IN  IF cmp(f).kind = "crash"
                 THEN Result(Crash, << >>, 0, << >>, "Path_comparePath")
                 ELSE Result("FALSE", <<E_Order>>, 0, << >>, "")

RECURSIVE CheckerDT_treeCheck(_, _, _, _)
RECURSIVE CheckerDT_recurLoop(_, _, _, _, _)

\* the recursion loop without its "return FALSE": it goes on to the next child
CheckerDT_recurLoop_noShortCircuit(lib, h, n, i, acc) ==
    IF i > Node_getNumChildren(h, n) THEN acc
    ELSE LET r == CheckerDT_treeCheck(lib, h, Node_getChild(h, n, i), acc.cnt)
             m == Result(IF acc.ret # "TRUE" THEN acc.ret ELSE r.ret,
                         acc.err \o r.err, r.cnt, acc.seen \o r.seen, r.nullop)
         IN  CheckerDT_recurLoop(lib, h, n, i + 1, m)

(***************************************************************************)
(* The recursion loop of CheckerDT_treeCheck, lines 151-165, from child    *)
(* index i on; acc is what the earlier children produced.  Node_getChild   *)
(* succeeds for every index below Node_getNumChildren, so the E_GetChild   *)
(* branch of line 156 is never taken.                                      *)
(***************************************************************************)
CheckerDT_recurLoop(lib, h, n, i, acc) ==
    IF i > Node_getNumChildren(h, n) THEN acc
    ELSE LET r == CheckerDT_treeCheck(lib, h, Node_getChild(h, n, i), acc.cnt)
             m == Result(r.ret, acc.err \o r.err, r.cnt, acc.seen \o r.seen, r.nullop)
         IN  IF r.ret # "TRUE" THEN m
             ELSE CheckerDT_recurLoop(lib, h, n, i + 1, m)

\* the traversal counting a node only once it has passed CheckerDT_Node_isValid
CheckerDT_treeCheck_countsLate(lib, h, n, cnt) ==
    IF n = NULL THEN Result("TRUE", << >>, cnt, << >>, "")
    ELSE
    LET c1 == cnt + 1
        v == CheckerDT_Node_isValid(lib, h, n)
        o == CheckerDT_orderLoop(lib, h, n)
        d == CheckerDT_noDuplicateChildren(lib, h, n)
    IN  IF v.ret # "TRUE" THEN Result(v.ret, v.err, cnt, <<n>>, v.nullop)
        ELSE IF o.ret # "TRUE" THEN Result(o.ret, o.err, c1, <<n>>, o.nullop)
        ELSE IF d.ret # "TRUE" THEN Result(d.ret, d.err, c1, <<n>>, d.nullop)
        ELSE CheckerDT_recurLoop(lib, h, n, 1, Result("TRUE", << >>, c1, <<n>>, ""))

(***************************************************************************)
(* CheckerDT_treeCheck(oNNode, pNodeCount) with *pNodeCount = cnt on entry.*)
(***************************************************************************)
CheckerDT_treeCheck(lib, h, n, cnt) ==
    IF n = NULL THEN Result("TRUE", << >>, cnt, << >>, "")
    ELSE
    LET c1 == cnt + 1
        v == CheckerDT_Node_isValid(lib, h, n)
        o == CheckerDT_orderLoop(lib, h, n)
        d == CheckerDT_noDuplicateChildren(lib, h, n)
    IN  IF v.ret # "TRUE" THEN Result(v.ret, v.err, c1, <<n>>, v.nullop)
        ELSE IF o.ret # "TRUE" THEN Result(o.ret, o.err, c1, <<n>>, o.nullop)
        ELSE IF d.ret # "TRUE" THEN Result(d.ret, d.err, c1, <<n>>, d.nullop)
        ELSE CheckerDT_recurLoop(lib, h, n, 1, Result("TRUE", << >>, c1, <<n>>, ""))

\* the uninitialized branch testing the count alone
CheckerDT_uninitialized_countOnly(root, count) ==
    IF count # 0 THEN Result("FALSE", <<E_UninitCount>>, 0, << >>, "")
    ELSE Result("TRUE", << >>, 0, << >>, "")

\* the branch of CheckerDT_isValid for !bIsInitialized, lines 178-188
CheckerDT_uninitialized(root, count) ==
    IF count # 0 THEN Result("FALSE", <<E_UninitCount>>, 0, << >>, "")
    ELSE IF root # NULL THEN Result("FALSE", <<E_UninitRoot>>, 0, << >>, "")
    ELSE Result("TRUE", << >>, 0, << >>, "")

\* the count never reconciled
CountMismatch_never(nodeCount, count) == FALSE

\* the test of line 201
CountMismatch(nodeCount, count) == nodeCount # count

(***************************************************************************)
(* CheckerDT_isValid(bIsInitialized, oNRoot, ulCount).                     *)
(***************************************************************************)
CheckerDT_isValid(lib, h, init, root, count) ==
    IF ~init THEN CheckerDT_uninitialized(root, count)
    ELSE IF count > 0 /\ root = NULL
    THEN Result("FALSE", <<E_NullRoot>>, 0, << >>, "")
    ELSE LET t == CheckerDT_treeCheck(lib, h, root, 0)
         IN  IF t.ret # "TRUE" THEN t
             ELSE IF CountMismatch(t.cnt, count)
             THEN Result("FALSE", <<E_Count>>, t.cnt, t.seen, "")
             ELSE t

(***************************************************************************)
(* The state machine.                                                      *)
(***************************************************************************)
Nodes == 1..Len(heap)

NoCall ==
    [fn |-> "none", init |-> FALSE, root |-> NULL, count |-> 0, node |-> NULL,
     out |-> Result("TRUE", << >>, 0, << >>, "")]

Idle == call.fn = "none"

\* the state before DT_init
Init ==
    /\ heap = << >>
    /\ bIsInitialized = FALSE
    /\ oNRoot = NULL
    /\ ulCount = 0
    /\ faulted = FALSE
    /\ call = NoCall

\* DT_init: an empty, initialized tree
DT_init ==
    /\ Idle
    /\ ~bIsInitialized
    /\ bIsInitialized' = TRUE
    /\ oNRoot' = NULL
    /\ ulCount' = 0
    /\ UNCHANGED <<heap, faulted, call>>

\* where Node_new puts a child of path p in the sorted child list cs
InsertionIndex(h, cs, p) ==
    1 + Cardinality({ i \in 1..Len(cs) : Path_comparePath(Node_getPath(h, cs[i]), p) < 0 })

InsertAt(cs, i, x) == SubSeq(cs, 1, i - 1) \o <<x>> \o SubSeq(cs, i, Len(cs))

(***************************************************************************)
(* One node creation of DT_insert: the first node becomes the root; a      *)
(* later node of name c goes under par, whose path is its longest proper   *)
(* prefix, at its sorted place, and the tally grows by one.  The DT works  *)
(* only on a tree nothing has been overwritten in.                         *)
(***************************************************************************)
DT_insertRoot(c) ==
    /\ Idle
    /\ ~faulted
    /\ bIsInitialized
    /\ oNRoot = NULL
    /\ Len(heap) < MaxNodes
    /\ heap' = Append(heap, [path |-> <<c>>, parent |-> NULL, children |-> << >>])
    /\ oNRoot' = Len(heap) + 1
    /\ ulCount' = ulCount + 1
    /\ UNCHANGED <<bIsInitialized, faulted, call>>

DT_insertChild(par, c) ==
    LET p == Append(Node_getPath(heap, par), c)
        new == Len(heap) + 1
        cs == heap[par].children
    IN  /\ Idle
        /\ ~faulted
        /\ bIsInitialized
        /\ Len(heap) < MaxNodes
        /\ Len(p) <= MaxDepth
        /\ \A i \in 1..Len(cs) : Node_getPath(heap, cs[i]) # p
        /\ heap' = Append(
                     [heap EXCEPT ![par].children = InsertAt(cs, InsertionIndex(heap, cs, p), new)],
                     [path |-> p, parent |-> par, children |-> << >>])
        /\ ulCount' = ulCount + 1
        /\ UNCHANGED <<bIsInitialized, oNRoot, faulted, call>>

(***************************************************************************)
(* Faults: one field of a node overwritten behind the DT's back.  These    *)
(* are the malformed trees the checker exists to reject.                   *)
(***************************************************************************)
CanFault == Idle /\ ~faulted

OverwritePath(n, p) ==
    /\ CanFault
    /\ heap[n].path # p
    /\ heap' = [heap EXCEPT ![n].path = p]
    /\ faulted' = TRUE
    /\ UNCHANGED <<bIsInitialized, oNRoot, ulCount, call>>

OverwriteParent(n, m) ==
    /\ CanFault
    /\ heap[n].parent # m
    /\ heap' = [heap EXCEPT ![n].parent = m]
    /\ faulted' = TRUE
    /\ UNCHANGED <<bIsInitialized, oNRoot, ulCount, call>>

\* the parent pointer of n is left on a stale copy of its parent
StaleParent(n) ==
    /\ CanFault
    /\ heap[n].parent # NULL
    /\ heap' = Append([heap EXCEPT ![n].parent = Len(heap) + 1], heap[heap[n].parent])
    /\ faulted' = TRUE
    /\ UNCHANGED <<bIsInitialized, oNRoot, ulCount, call>>

SwapChildren(n, i) ==
    LET cs == heap[n].children
    IN  /\ CanFault
        /\ i < Len(cs)
        /\ heap' = [heap EXCEPT ![n].children = [cs EXCEPT ![i] = cs[i + 1], ![i + 1] = cs[i]]]
        /\ faulted' = TRUE
        /\ UNCHANGED <<bIsInitialized, oNRoot, ulCount, call>>

NullChild(n, i) ==
    LET cs == heap[n].children
    IN  /\ CanFault
        /\ i <= Len(cs)
        /\ cs[i] # NULL
        /\ heap' = [heap EXCEPT ![n].children[i] = NULL]
        /\ faulted' = TRUE
        /\ UNCHANGED <<bIsInitialized, oNRoot, ulCount, call>>

(***************************************************************************)
(* The two entry points of the checker, called with any arguments over the *)
(* current heap; the DT itself calls CheckerDT_isValid with its own three  *)
(* fields.                                                                 *)
(***************************************************************************)
Call_isValid(lib, init, root, count) ==
    /\ Idle
    /\ call' = [fn |-> "isValid", init |-> init, root |-> root, count |-> count,
                node |-> NULL, out |-> CheckerDT_isValid(lib, heap, init, root, count)]
    /\ UNCHANGED <<heap, bIsInitialized, oNRoot, ulCount, faulted>>

Call_Node_isValid(lib, n) ==
    /\ Idle
    /\ call' = [fn |-> "Node_isValid", init |-> FALSE, root |-> NULL, count |-> 0,
                node |-> n, out |-> CheckerDT_Node_isValid(lib, heap, n)]
    /\ UNCHANGED <<heap, bIsInitialized, oNRoot, ulCount, faulted>>

\* the caller goes on
Return ==
    /\ ~Idle
    /\ call' = NoCall
    /\ UNCHANGED <<heap, bIsInitialized, oNRoot, ulCount, faulted>>

Next ==
    \/ DT_init
    \/ \E c \in Names : DT_insertRoot(c)
    \/ \E par \in Nodes, c \in Names : DT_insertChild(par, c)
    \/ \E n \in Nodes, p \in PathValues : OverwritePath(n, p)
    \/ \E n \in Nodes, m \in {NULL} \cup Nodes : OverwriteParent(n, m)
    \/ \E n \in Nodes : StaleParent(n)
    \/ \E n \in Nodes, i \in 1..MaxNodes : SwapChildren(n, i)
    \/ \E n \in Nodes, i \in 1..MaxNodes : NullChild(n, i)
    \/ \E lib \in Libs, init \in BOOLEAN, root \in {NULL} \cup Nodes, count \in CountValues :
           Call_isValid(lib, init, root, count)
    \/ \E lib \in Libs, n \in {NULL} \cup Nodes : Call_Node_isValid(lib, n)
    \/ Return

Spec == Init /\ [][Next]_vars

(***************************************************************************)
(* What the properties speak of, defined on the heap alone and not through *)
(* the checker's traversal.                                                *)
(***************************************************************************)
out == call.out

\* the nodes reachable from n through child lists, in pre-order, left to right
RECURSIVE PreOrder(_, _)
RECURSIVE PreOrderAll(_, _)
PreOrder(h, n) ==
    IF n = NULL THEN << >> ELSE <<n>> \o PreOrderAll(h, h[n].children)
PreOrderAll(h, cs) ==
    IF cs = << >> THEN << >> ELSE PreOrder(h, Head(cs)) \o PreOrderAll(h, Tail(cs))

Range(s) == { s[i] : i \in 1..Len(s) }

\* every check CheckerDT_treeCheck makes at node n itself passes
NodeChecksPass(h, n) ==
    \A lib \in Libs :
        /\ CheckerDT_Node_isValid(lib, h, n).ret = "TRUE"
        /\ CheckerDT_orderLoop(lib, h, n).ret = "TRUE"
        /\ CheckerDT_noDuplicateChildren(lib, h, n).ret = "TRUE"

\* the places in a pre-order listing whose node fails a check of its own
BadPlaces(h, order) == { i \in 1..Len(order) : ~NodeChecksPass(h, order[i]) }

Least(S) == CHOOSE k \in S : \A j \in S : k <= j

\* children i and i+1 of n are nodes with paths, and compare as c says
SiblingPair(h, n, i) ==
    LET cs == h[n].children
    IN  /\ i < Len(cs)
        /\ cs[i] # NULL /\ cs[i + 1] # NULL
        /\ h[cs[i]].path # NULLPATH /\ h[cs[i + 1]].path # NULLPATH

SiblingCompare(h, n, i) ==
    Path_comparePath(h[h[n].children[i]].path, h[h[n].children[i + 1]].path)

\* two consecutive children of n out of order, or equal
HasBadSiblings(h, n) ==
    \E i \in 1..Len(h[n].children) : SiblingPair(h, n, i) /\ SiblingCompare(h, n, i) >= 0

\* two consecutive children of n out of order
HasDescendingSiblings(h, n) ==
    \E i \in 1..Len(h[n].children) : SiblingPair(h, n, i) /\ SiblingCompare(h, n, i) > 0

\* two consecutive children of n with equal paths
HasEqualSiblings(h, n) ==
    \E i \in 1..Len(h[n].children) : SiblingPair(h, n, i) /\ SiblingCompare(h, n, i) = 0

\* the call in progress is CheckerDT_isValid(TRUE, ...) / the DT's own call of it
IsValidCall == call.fn = "isValid"
InitializedCall == IsValidCall /\ call.init
OwnCall ==
    IsValidCall /\ call.init = bIsInitialized /\ call.root = oNRoot /\ call.count = ulCount
NodeCall == call.fn = "Node_isValid"

\* the node at which a failed traversal stopped
StoppedAt == out.seen[Len(out.seen)]

(***************************************************************************)
(* C1.  No false alarms: on a tree built from the empty initialized tree   *)
(* by insertions alone, CheckerDT_isValid called with the DT's own flag,   *)
(* root and tally returns TRUE and writes no diagnostic.                   *)
(***************************************************************************)
C1_NoFalseAlarm ==
    (OwnCall /\ bIsInitialized /\ ~faulted) => out.ret = "TRUE" /\ out.err = << >>

C1_Witness ==
    /\ OwnCall /\ bIsInitialized /\ ~faulted
    /\ ulCount = 3
    /\ Len(heap[oNRoot].children) = 2
    /\ out.ret = "TRUE"

(***************************************************************************)
(* C2.  Reciprocity: if a node reachable from the root lists a child whose *)
(* parent reference is another node, CheckerDT_isValid(TRUE, ...) does not *)
(* return TRUE.                                                            *)
(***************************************************************************)
BrokenReciprocity(h, r) ==
    \E n \in Range(PreOrder(h, r)) :
        \E i \in 1..Len(h[n].children) :
            h[n].children[i] # NULL /\ h[h[n].children[i]].parent # n

C2_ReciprocityEnforced ==
    (InitializedCall /\ BrokenReciprocity(heap, call.root)) => out.ret # "TRUE"

(***************************************************************************)
(* C3.  G3: if the root handed to CheckerDT_isValid(TRUE, ...) has a       *)
(* parent, the call does not return TRUE, whatever the depth of the root's *)
(* path.                                                                   *)
(***************************************************************************)
C3_RootWithParentRejected ==
    (InitializedCall /\ call.root # NULL /\ heap[call.root].parent # NULL)
        => out.ret # "TRUE"

(***************************************************************************)
(* C4.  G4: when every check at every reachable node passes,               *)
(* CheckerDT_isValid(TRUE, root, count) returns, and returns TRUE exactly  *)
(* when the number of nodes reachable from root equals count.              *)
(***************************************************************************)
C4_CountReconciled ==
    LET order == PreOrder(heap, call.root)
    IN  (InitializedCall /\ BadPlaces(heap, order) = { })
            => /\ Returned(out)
               /\ (out.ret = "TRUE") <=> (Len(order) = call.count)

\* three reachable nodes, a claimed count of five: FALSE
C4_Witness ==
    LET order == PreOrder(heap, call.root)
    IN  /\ InitializedCall /\ BadPlaces(heap, order) = { }
        /\ Len(order) = 3 /\ call.count = 5
        /\ out.ret = "FALSE"

(***************************************************************************)
(* C5.  Sibling ordering.  As claimed: if a reachable node has two         *)
(* consecutive children that compare >= 0, CheckerDT_isValid(TRUE, ...)    *)
(* does not return TRUE, and when the traversal stops at a node for a pair *)
(* of equal paths it is the ordering check that reports it.                *)
(***************************************************************************)
ReachableBadSiblings ==
    \E n \in Range(PreOrder(heap, call.root)) : HasBadSiblings(heap, n)

\* the traversal stopped at a node for no other reason than an equal pair
StoppedOnEqualPair ==
    /\ out.ret = "FALSE" /\ out.seen # << >>
    /\ \A lib \in Libs : CheckerDT_Node_isValid(lib, heap, StoppedAt).ret = "TRUE"
    /\ ~HasDescendingSiblings(heap, StoppedAt)
    /\ HasEqualSiblings(heap, StoppedAt)

C6_OneDiagnostic ==
    IsValidCall => /\ out.ret = "FALSE" => Len(out.err) = 1
                   /\ out.ret = "TRUE" => out.err = << >>

\* FALSE with one line, on a tree where two nodes below the root each fail
C6_Witness ==
    LET order == PreOrder(heap, call.root)
    IN  /\ InitializedCall
        /\ out.ret = "FALSE" /\ Len(out.err) = 1
        /\ Cardinality(BadPlaces(heap, order)) >= 2
        /\ 1 \notin BadPlaces(heap, order)

(***************************************************************************)
(* C7.  G1: CheckerDT_isValid(FALSE, root, count) returns TRUE exactly     *)
(* when count = 0 and root is NULL, and visits no node.                    *)
(***************************************************************************)
C7_Uninitialized ==
    (IsValidCall /\ ~call.init)
        => /\ Returned(out)
           /\ (out.ret = "TRUE") <=> (call.count = 0 /\ call.root = NULL)
           /\ out.seen = << >> /\ out.cnt = 0

\* uninitialized, count 0, but a root with a subtree: FALSE and nothing visited
C7_Witness ==
    /\ IsValidCall /\ ~call.init
    /\ call.count = 0 /\ call.root # NULL
    /\ Len(PreOrder(heap, call.root)) >= 2
    /\ out.ret = "FALSE" /\ out.seen = << >>

(***************************************************************************)
(* C8.  As claimed: CheckerDT_Node_isValid, called on a node whose own     *)
(* path and parent are well-formed, does not return TRUE when two          *)
(* consecutive children of the node compare >= 0.                          *)
(***************************************************************************)
C8_AsClaimed ==
    (NodeCall /\ call.node # NULL /\ HasBadSiblings(heap, call.node)) => out.ret # "TRUE"

\* the parent's path agrees with p on exactly the first Len(p) - 1 components
AgreesUpToLast(p, pp) ==
    /\ Len(pp) >= Len(p) - 1
    /\ \A i \in 1..(Len(p) - 1) : pp[i] = p[i]
    /\ ~(Len(pp) >= Len(p) /\ pp[Len(p)] = p[Len(p)])

\* I3, I4 and I5 at node n: what concerns its own path and its parent
OwnInvariants(h, n) ==
    LET p == h[n].path
        par == h[n].parent
    IN  /\ par # NULL => AgreesUpToLast(p, h[par].path)
        /\ Len(p) = 1 => (par = NULL /\ \A i \in 1..Len(p[1]) : p[1][i] # Slash)
        /\ Len(p) > 1 => par # NULL

(***************************************************************************)
(* C8 as the code has it: CheckerDT_Node_isValid, called on a node with a  *)
(* path whose parent, if any, has a path, returns TRUE exactly when the    *)
(* node's own path and parent satisfy I3, I4 and I5; it does not look at   *)
(* the node's children.                                                    *)
(***************************************************************************)
C8_Amended ==
    (/\ NodeCall /\ call.node # NULL
     /\ heap[call.node].path # NULLPATH
     /\ heap[call.node].parent # NULL => heap[heap[call.node].parent].path # NULLPATH)
        => /\ Returned(out)
           /\ (out.ret = "TRUE") <=> OwnInvariants(heap, call.node)

\* TRUE for a node whose children are out of order
C8_Witness ==
    /\ NodeCall /\ call.node # NULL
    /\ HasDescendingSiblings(heap, call.node)
    /\ OwnInvariants(heap, call.node)
    /\ out.ret = "TRUE"

(***************************************************************************)
(* C9.  CheckerDT_Node_isValid on a node whose path is NULL returns FALSE  *)
(* with the NULL-path diagnostic, and hands no Path operation a NULL path. *)
(***************************************************************************)
C9_NullPathReported ==
    (NodeCall /\ call.node # NULL /\ heap[call.node].path = NULLPATH)
        => /\ out.ret = "FALSE"
           /\ out.err = <<E_NullPath>>
           /\ out.nullop = ""

====
